---- MODULE Spec2Model ----
(***************************************************************************)
(* A model of sanic-ext's runtime validation engine                        *)
(* (sanic_ext/extras/validation/check.py: Hint.validate, Hint.coerce,      *)
(* check_data and the _check_* helpers) and of its log-relay consumer      *)
(* (sanic_ext/extensions/logging/logger.py: Logger).                       *)
(*                                                                         *)
(* Python values are tagged tuples whose first element is the kind:        *)
(*   <<"none">>  <<"str", chars>>  <<"int", n>>  <<"bool", b>>             *)
(*   <<"list", items>>  <<"dict", f>>  <<"sentinel", name>>                *)
(*   <<"obj", model, fields>>                                              *)
(* and a raised exception is <<"exc", class, message kind, names>>: an     *)
(* operator that models a Python function returns either the value the     *)
(* function returns or the exception it raises.  A string is the sequence  *)
(* of its characters, so that lower(), int() and str() are computed.       *)
(***************************************************************************)
EXTENDS Integers, Sequences, FiniteSets, TLC

(***************************************************************************)
(* Python values                                                           *)
(***************************************************************************)
VNone == <<"none">>
VStr(cs) == <<"str", cs>>
VInt(n) == <<"int", n>>
VBool(b) == <<"bool", b>>
VList(items) == <<"list", items>>
VDict(f) == <<"dict", f>>
VObj(name, fields) == <<"obj", name, fields>>
Exc(cls, kind, names) == <<"exc", cls, kind, names>>

Kind(v) == v[1]
IsExc(r) == Kind(r) = "exc"
ExcClass(r) == r[2]
ExcKind(r) == r[3]
ExcNames(r) == r[4]
IsNone(v) == Kind(v) = "none"
IsList(v) == Kind(v) = "list"
IsDict(v) == Kind(v) = "dict"
Items(v) == v[2]

\* dataclasses._HAS_DEFAULT_FACTORY and attrs.NOTHING
HAS_DEFAULT_FACTORY == <<"sentinel", "_HAS_DEFAULT_FACTORY">>
NOTHING == <<"sentinel", "NOTHING">>
\* whether the optional attrs import succeeded
ATTRS == TRUE
MISSING == IF ATTRS THEN {HAS_DEFAULT_FACTORY, NOTHING} ELSE {HAS_DEFAULT_FACTORY}

\* Python's ==: bool is an int (True == 1), everything else compares by kind and content
PyEq(a, b) ==
    IF Kind(a) \in {"int", "bool"} /\ Kind(b) \in {"int", "bool"}
    THEN (IF Kind(a) = "bool" THEN (IF a[2] THEN 1 ELSE 0) ELSE a[2])
         = (IF Kind(b) = "bool" THEN (IF b[2] THEN 1 ELSE 0) ELSE b[2])
    ELSE Kind(a) = Kind(b) /\ a = b

(***************************************************************************)
(* Strings: str.lower(), int(str), str(int)                                *)
(***************************************************************************)
UpperCase == <<"A","B","C","D","E","F","G","H","I","J","K","L","M",
               "N","O","P","Q","R","S","T","U","V","W","X","Y","Z">>
LowerCase == <<"a","b","c","d","e","f","g","h","i","j","k","l","m",
               "n","o","p","q","r","s","t","u","v","w","x","y","z">>
Digits == <<"0","1","2","3","4","5","6","7","8","9">>

LowerChar(c) ==
    IF \E i \in 1..Len(UpperCase) : UpperCase[i] = c
    THEN LowerCase[CHOOSE i \in 1..Len(UpperCase) : UpperCase[i] = c]
    ELSE c

Lower(cs) == [i \in 1..Len(cs) |-> LowerChar(cs[i])]

IsDigit(c) == \E i \in 1..Len(Digits) : Digits[i] = c
DigitVal(c) == (CHOOSE i \in 1..Len(Digits) : Digits[i] = c) - 1

RECURSIVE DigitsVal(_)
DigitsVal(cs) ==
    IF cs = <<>> THEN 0
    ELSE 10 * DigitsVal(SubSeq(cs, 1, Len(cs) - 1)) + DigitVal(cs[Len(cs)])

AllDigits(cs) == cs # <<>> /\ \A i \in 1..Len(cs) : IsDigit(cs[i])

RECURSIVE NatChars(_)
NatChars(n) ==
    IF n < 10 THEN <<Digits[n + 1]>>
    ELSE NatChars(n \div 10) \o <<Digits[(n % 10) + 1]>>

IntChars(n) == IF n < 0 THEN <<"-">> \o NatChars(0 - n) ELSE NatChars(n)

Chars(s) ==
    CASE s = "" -> <<>>
      [] s = "null" -> <<"n","u","l","l">>
      [] s = "None" -> <<"N","o","n","e">>
      [] s = "True" -> <<"T","r","u","e">>
      [] s = "False" -> <<"F","a","l","s","e">>
      [] s = "true" -> <<"t","r","u","e">>
      [] s = "<factory>" -> <<"<","f","a","c","t","o","r","y",">">>
      [] s = "NOTHING" -> <<"N","O","T","H","I","N","G">>
      [] OTHER -> <<s>>

\* Python's str() and repr() of a value (repr quotes a string, str does not)
RECURSIVE ReprOf(_), JoinRepr(_, _), JoinPairs(_, _, _)
StrOf(v) ==
    CASE Kind(v) = "str" -> v[2]
      [] Kind(v) = "int" -> IntChars(v[2])
      [] Kind(v) = "bool" -> IF v[2] THEN Chars("True") ELSE Chars("False")
      [] Kind(v) = "none" -> Chars("None")
      [] Kind(v) = "sentinel" ->
            IF v = HAS_DEFAULT_FACTORY THEN Chars("<factory>") ELSE Chars("NOTHING")
      [] Kind(v) = "list" -> <<"[">> \o JoinRepr(v[2], 1) \o <<"]">>
      [] OTHER -> ReprOf(v)

ReprOf(v) ==
    CASE Kind(v) = "str" -> <<"'">> \o v[2] \o <<"'">>
      [] Kind(v) = "list" -> <<"[">> \o JoinRepr(v[2], 1) \o <<"]">>
      [] Kind(v) = "dict" ->
            <<"{">> \o JoinPairs(v[2], 1, TRUE) \o <<"}">>
      [] Kind(v) = "obj" ->
            <<v[2], "(">> \o JoinPairs(v[3], 1, FALSE) \o <<")">>
      [] OTHER -> StrOf(v)

JoinRepr(items, i) ==
    IF i > Len(items) THEN <<>>
    ELSE ReprOf(items[i]) \o (IF i < Len(items) THEN <<",", " ">> ELSE <<>>)
         \o JoinRepr(items, i + 1)

\* the items of a dict's repr ('key': value) or of a dataclass's (key=value)
JoinPairs(pairs, i, quoted) ==
    IF i > Len(pairs) THEN <<>>
    ELSE (IF quoted THEN <<"'", pairs[i][1], "'", ":", " ">> ELSE <<pairs[i][1], "=">>)
         \o ReprOf(pairs[i][2]) \o (IF i < Len(pairs) THEN <<",", " ">> ELSE <<>>)
         \o JoinPairs(pairs, i + 1, quoted)

\* a dict (and an instance's fields) is the sequence of its <<key, value>> items, in
\* insertion order
DictKeys(pairs) == {pairs[i][1] : i \in 1..Len(pairs)}
DictGet(pairs, k) == pairs[CHOOSE i \in 1..Len(pairs) : pairs[i][1] = k][2]

(***************************************************************************)
(* Declared types (typing objects): classes, dataclass models, literal     *)
(* values and subscripted generics (Union/Optional, Literal[...], List,    *)
(* Dict).  name is what str(hint) contributes to a message.                *)
(***************************************************************************)
Cls(name) == [kind |-> "class", name |-> name, origin |-> "None", args |-> <<>>,
              value |-> VNone]
Mdl(name) == [kind |-> "model", name |-> name, origin |-> "None", args |-> <<>>,
              value |-> VNone]
Lit(name, v) == [kind |-> "literal", name |-> name, origin |-> "None", args |-> <<>>,
                 value |-> v]
Gen(name, origin, args) == [kind |-> "generic", name |-> name, origin |-> origin,
                            args |-> args, value |-> VNone]

T_int == Cls("int")
T_str == Cls("str")
T_bool == Cls("bool")
T_list == Cls("list")
NoneType == Cls("NoneType")
T_PersonID == Mdl("PersonID")
T_a == Lit("a", VStr(<<"a">>))
T_b == Lit("b", VStr(<<"b">>))
T_Literal_ab == Gen("Literal[a,b]", "Literal", <<T_a, T_b>>)
T_Optional_int == Gen("Optional[int]", "Union", <<T_int, NoneType>>)
T_Optional_str == Gen("Optional[str]", "Union", <<T_str, NoneType>>)
T_Optional_Literal_ab == Gen("Optional[Literal[a,b]]", "Union", <<T_Literal_ab, NoneType>>)
T_List_str == Gen("List[str]", "list", <<T_str>>)
T_List_int == Gen("List[int]", "list", <<T_int>>)
T_List_bool == Gen("List[bool]", "list", <<T_bool>>)
T_Optional_List_str == Gen("Optional[List[str]]", "Union", <<T_List_str, NoneType>>)
T_Dict_str_int == Gen("Dict[str,int]", "dict", <<T_str, T_int>>)
T_Union_int_str == Gen("Union[int,str]", "Union", <<T_int, T_str>>)
T_Union_str_int == Gen("Union[str,int]", "Union", <<T_str, T_int>>)
T_Union_int_bool == Gen("Union[int,bool]", "Union", <<T_int, T_bool>>)
T_Union_bool_int == Gen("Union[bool,int]", "Union", <<T_bool, T_int>>)
T_Union_PersonID_str == Gen("Union[PersonID,str]", "Union", <<T_PersonID, T_str>>)
T_Union_int_str_None == Gen("Union[int,str,None]", "Union", <<T_int, T_str, NoneType>>)
T_Union_int_bool_None == Gen("Union[int,bool,None]", "Union", <<T_int, T_bool, NoneType>>)
T_Union_PersonID_str_None ==
    Gen("Union[PersonID,str,None]", "Union", <<T_PersonID, T_str, NoneType>>)
T_Union_str_PersonID_None ==
    Gen("Union[str,PersonID,None]", "Union", <<T_str, T_PersonID, NoneType>>)

get_args(t) == t.args
InArgs(t, args) == \E i \in 1..Len(args) : args[i] = t

\* sanic_ext.utils.typing
is_generic(item) == item.kind = "generic"
is_optional(item) ==
    is_generic(item) /\ Len(get_args(item)) = 2 /\ InArgs(NoneType, get_args(item))

\* the builtin isinstance(value, cls) raises TypeError when cls is not a class (a
\* literal value such as 'a', or a subscripted generic such as List[str])
isinstance_raises(cls) == cls.kind \in {"literal", "generic"}
isinstance_error == Exc("TypeError", "isinstance_arg2", <<>>)

\* the builtin isinstance(value, cls) for a class; bool is a subclass of int
isinstance(value, cls) ==
    CASE cls.kind = "model" -> Kind(value) = "obj" /\ value[2] = cls.name
      [] cls.name = "int" -> Kind(value) \in {"int", "bool"}
      [] cls.name = "str" -> Kind(value) = "str"
      [] cls.name = "bool" -> Kind(value) = "bool"
      [] cls.name = "list" -> Kind(value) = "list"
      [] cls.name = "NoneType" -> Kind(value) = "none"
      [] OTHER -> FALSE

(***************************************************************************)
(* Hint, and the Hints the inspector builds from declared types            *)
(***************************************************************************)
Hint(hint, model, literal, typed, nullable, origin, allowed, allow_missing) ==
    [hint |-> hint, model |-> model, literal |-> literal, typed |-> typed,
     nullable |-> nullable, origin |-> origin, allowed |-> allowed,
     allow_missing |-> allow_missing]

\* the types of the alternatives of a compound type: a nullable type drops None, a
\* dict keeps its value type
AllowedTypes(t) ==
    IF ~is_generic(t) THEN <<>>
    ELSE IF InArgs(NoneType, get_args(t))
         THEN SelectSeq(get_args(t), LAMBDA a : a # NoneType)
         ELSE IF t.origin = "dict" THEN <<get_args(t)[2]>> ELSE get_args(t)

RECURSIVE parse_hint(_, _)
parse_hint(t, allow_missing) ==
    Hint(t,
         t.kind = "model",
         t.kind = "literal",
         is_generic(t),
         is_generic(t) /\ InArgs(NoneType, get_args(t)),
         IF is_generic(t) THEN t.origin ELSE "None",
         [i \in 1..Len(AllowedTypes(t)) |-> parse_hint(AllowedTypes(t)[i], FALSE)],
         allow_missing)

\* Hint.coerce_type
coerce_type(self) ==
    IF is_optional(self.hint) THEN get_args(self.hint)[1] ELSE self.hint

(***************************************************************************)
(* Coercers                                                                *)
(***************************************************************************)
\* str_to_none
str_to_none(value) ==
    IF IsNone(value) THEN VNone
    ELSE IF Kind(value) # "str" THEN Exc("AttributeError", "no_attribute", <<"lower">>)
    ELSE IF Lower(value[2]) \in {Chars("null"), <<"n","o","n","e">>, Chars("")}
         THEN VNone
         ELSE Exc("ValueError", "could_not_convert", <<>>)

\* sanic.utils.str_to_bool
TrueTokens == {<<"y">>, <<"y","e","s">>, <<"y","e","p">>, <<"y","u","p">>, <<"t">>,
               <<"t","r","u","e">>, <<"o","n">>, <<"e","n","a","b","l","e">>,
               <<"e","n","a","b","l","e","d">>, <<"1">>}
FalseTokens == {<<"n">>, <<"n","o">>, <<"f">>, <<"f","a","l","s","e">>, <<"o","f","f">>,
                <<"d","i","s","a","b","l","e">>, <<"d","i","s","a","b","l","e","d">>,
                <<"0">>}
str_to_bool(val) ==
    IF Kind(val) # "str" THEN Exc("AttributeError", "no_attribute", <<"lower">>)
    ELSE IF Lower(val[2]) \in TrueTokens THEN VBool(TRUE)
    ELSE IF Lower(val[2]) \in FalseTokens THEN VBool(FALSE)
    ELSE Exc("ValueError", "invalid_truth_value", <<>>)

\* the builtin int(value)
int(value) ==
    CASE Kind(value) = "int" -> value
      [] Kind(value) = "bool" -> VInt(IF value[2] THEN 1 ELSE 0)
      [] Kind(value) = "str" ->
            IF AllDigits(value[2]) THEN VInt(DigitsVal(value[2]))
            ELSE IF Len(value[2]) > 1 /\ value[2][1] \in {"-", "+"} /\ AllDigits(Tail(value[2]))
                 THEN VInt((IF value[2][1] = "-" THEN -1 ELSE 1) * DigitsVal(Tail(value[2])))
                 ELSE Exc("ValueError", "invalid_literal", <<>>)
      [] OTHER -> Exc("TypeError", "int_argument", <<>>)

(***************************************************************************)
(* The schema: per model, the constructor signature and the field Hints    *)
(***************************************************************************)
\* a signature parameter: default is what apply_defaults binds when the argument is
\* not supplied (the _HAS_DEFAULT_FACTORY sentinel for a default_factory field), made
\* is what the constructor itself supplies when the argument is left out
Param(name, required, default, made) ==
    [name |-> name, required |-> required, default |-> default, made |-> made]

PersonID_1 == VObj("PersonID", <<<<"person_id", VInt(1)>>>>)

\* class PersonID:  person_id: int
\* class Person:    name: str; tags: List[str] = field(default_factory=list);
\*                  age: Optional[int] = None
\* class Team:      label: Literal["a", "b"];
\*                  lead: PersonID = field(default_factory=...)
\* def legacy(name: str, extra)   -- a constructor with an unannotated parameter
TheSchema ==
    [PersonID |->
        [sig |-> <<Param("person_id", TRUE, VNone, VNone)>>,
         hints |-> [person_id |-> parse_hint(T_int, FALSE)]],
     Person |->
        [sig |-> <<Param("name", TRUE, VNone, VNone),
                   Param("tags", FALSE, HAS_DEFAULT_FACTORY, VList(<<>>)),
                   Param("age", FALSE, VNone, VNone)>>,
         hints |-> [name |-> parse_hint(T_str, FALSE),
                    tags |-> parse_hint(T_List_str, TRUE),
                    age |-> parse_hint(T_Optional_int, FALSE)]],
     Team |->
        [sig |-> <<Param("label", TRUE, VNone, VNone),
                   Param("lead", FALSE, HAS_DEFAULT_FACTORY, PersonID_1)>>,
         hints |-> [label |-> parse_hint(T_Literal_ab, FALSE),
                    lead |-> parse_hint(T_PersonID, TRUE)]],
     Legacy |->
        [sig |-> <<Param("name", TRUE, VNone, VNone),
                   Param("extra", TRUE, VNone, VNone)>>,
         hints |-> [name |-> parse_hint(T_str, FALSE)]]]

ParamNames(sig) == {sig[i].name : i \in 1..Len(sig)}

\* model(**kwargs): the dataclass constructor.  It raises TypeError for an unexpected
\* or a missing required argument, and fills every omitted field from its default
construct(model, sig, kwargs) ==
    IF \E k \in DictKeys(kwargs) : k \notin ParamNames(sig)
    THEN Exc("TypeError", "unexpected_argument", <<>>)
    ELSE IF \E i \in 1..Len(sig) : sig[i].required /\ sig[i].name \notin DictKeys(kwargs)
    THEN Exc("TypeError", "missing_argument", <<>>)
    ELSE VObj(model.name,
              [i \in 1..Len(sig) |->
                  <<sig[i].name,
                    IF sig[i].name \in DictKeys(kwargs)
                    THEN DictGet(kwargs, sig[i].name) ELSE sig[i].made>>])

\* Hint.get_coercer: bool is replaced by str_to_bool, every other type coerces by
\* being called
get_coercer(ct) ==
    IF ct = T_bool THEN [fn |-> "str_to_bool", type |-> ct]
    ELSE [fn |-> "type", type |-> ct]
NoneCoercer == [fn |-> "str_to_none", type |-> NoneType]

\* coercer(item): str_to_none, str_to_bool, int, str, or a model class called with
\* one positional argument; calling anything else is a TypeError
call_coercer(coercer, item) ==
    CASE coercer.fn = "str_to_none" -> str_to_none(item)
      [] coercer.fn = "str_to_bool" -> str_to_bool(item)
      [] coercer.type = T_int -> int(item)
      [] coercer.type = T_str -> VStr(StrOf(item))
      [] coercer.type.kind = "model" ->
            construct(coercer.type, TheSchema[coercer.type.name].sig,
                      <<<<TheSchema[coercer.type.name].sig[1].name, item>>>>)
      [] OTHER -> Exc("TypeError", "not_callable", <<>>)

\* the first exception in a sequence of results, or the sequence as a list
FirstExc(results) ==
    IF \E i \in 1..Len(results) : IsExc(results[i])
    THEN results[CHOOSE i \in 1..Len(results) :
                    IsExc(results[i]) /\ \A j \in 1..(i - 1) : ~IsExc(results[j])]
    ELSE VList(results)

Caught(r, classes) == IsExc(r) /\ ExcClass(r) \in classes

\* Hint._do_coerce, lines 157-160: a ValueError or TypeError of the coercer is raised
\* again when raise_exception is set and otherwise leaves the value as it was
do_coerce_except(r, value, raise_exception) ==
    IF Caught(r, {"ValueError", "TypeError"})
    THEN (IF raise_exception THEN r ELSE value)
    ELSE r

\* Hint._do_coerce
do_coerce(value, coercer, raise_exception) ==
    do_coerce_except(IF IsList(value)
                     THEN FirstExc([i \in 1..Len(Items(value)) |->
                                       call_coercer(coercer, Items(value)[i])])
                     ELSE call_coercer(coercer, value),
                     value, raise_exception)

\* Hint.coerce, the loop over coerce_types: the first type the value already is an
\* instance of, or that converts it, decides; a failed conversion is passed over
RECURSIVE coerce_loop(_, _, _)
\* lines 134-139: try: value = self._do_coerce(...) except (ValueError, TypeError): ...
coerce_try(r, value, coerce_types, i) ==
    IF Caught(r, {"ValueError", "TypeError"})
    THEN coerce_loop(value, coerce_types, i + 1)
    ELSE r

coerce_loop(value, coerce_types, i) ==
    IF i > Len(coerce_types) THEN value
    ELSE IF isinstance_raises(coerce_types[i]) THEN isinstance_error
    ELSE IF isinstance(value, coerce_types[i]) THEN value
    ELSE coerce_try(do_coerce(value, get_coercer(coerce_types[i]), TRUE),
                    value, coerce_types, i)

\* Hint.coerce, lines 113-119: the types to try, NoneType left out
coerce_types_of(ct) ==
    IF is_generic(ct)
    THEN SelectSeq(get_args(ct), LAMBDA arg : ~isinstance(VNone, arg))
    ELSE <<ct>>

\* Hint.coerce, lines 121-141, v1 being the value after the str_to_none pass
coerce_nullable(self, v1, allow_multiple) ==
    IF IsExc(v1) THEN v1
    ELSE IF self.nullable
            /\ (IsNone(v1)
                \/ (IsList(v1) /\ allow_multiple
                    /\ \A i \in 1..Len(Items(v1)) : IsNone(Items(v1)[i])))
    THEN v1
    ELSE coerce_loop(v1, coerce_types_of(coerce_type(self)), 1)

\* Hint.coerce
coerce(self, value, allow_multiple) ==
    IF is_generic(coerce_type(self)) /\ InArgs(NoneType, get_args(coerce_type(self)))
       /\ IsNone(value)
    THEN VNone
    ELSE IF is_generic(coerce_type(self))
            /\ \E i \in 1..Len(get_args(coerce_type(self))) :
                  isinstance_raises(get_args(coerce_type(self))[i])
    THEN isinstance_error
    ELSE coerce_nullable(self,
                         IF self.nullable THEN do_coerce(value, NoneCoercer, FALSE)
                         ELSE value,
                         allow_multiple)

\* _check_types without the isinstance test of line 212
check_types_lax(value, literal, expected) ==
    IF literal /\ ~PyEq(value, expected.value)
    THEN Exc("ValueError", "must_be", <<expected.name>>) ELSE VNone

\* _check_types: returns None, or raises ValueError
check_types(value, literal, expected) ==
    IF literal
    THEN (IF ~PyEq(value, expected.value)
          THEN Exc("ValueError", "must_be", <<expected.name>>) ELSE VNone)
    ELSE IF isinstance_raises(expected) THEN isinstance_error
    ELSE IF ~isinstance(value, expected)
         THEN Exc("ValueError", "not_of_type", <<expected.name>>) ELSE VNone

\* sig.bind(**data); bound.apply_defaults(); params in signature order
bind(sig, data) ==
    IF \E i \in 1..Len(sig) : sig[i].required /\ sig[i].name \notin DictKeys(data)
    THEN Exc("TypeError", "missing_argument", <<>>)
    ELSE IF \E k \in DictKeys(data) : k \notin ParamNames(sig)
    THEN Exc("TypeError", "unexpected_argument", <<>>)
    ELSE VDict([i \in 1..Len(sig) |->
                  <<sig[i].name,
                    IF sig[i].name \in DictKeys(data)
                    THEN DictGet(data, sig[i].name) ELSE sig[i].default>>])

OptionNames(allowed) == [i \in 1..Len(allowed) |-> allowed[i].hint.name]

\* a call made for its exception only: the exception r, or else the value
Checked(r, value) == IF IsExc(r) THEN r ELSE value

(***************************************************************************)
(* The validator: Hint.validate, check_data and the _check_* helpers       *)
(***************************************************************************)
Swallowed == <<"swallowed">>

RECURSIVE validate(_, _, _, _, _), check_data(_, _, _, _, _),
          check_nullability(_, _, _, _, _, _), nullability_loop(_, _, _, _, _, _, _),
          check_inclusion(_, _, _, _, _), inclusion_loop(_, _, _, _, _, _),
          check_list(_, _, _, _, _, _), check_dict(_, _, _, _, _, _),
          validate_param(_, _, _, _, _, _), hydrate(_, _, _, _, _, _, _),
          validate_origin(_, _, _, _, _), validate_typed(_, _, _, _, _)

\* Hint.validate, lines 55-61: if allow_multiple and isinstance(value, list) and
\* self.coerce_type is not list and len(value) == 1: value = value[0]
unwrap_single(self, value, allow_multiple) ==
    IF allow_multiple /\ IsList(value) /\ coerce_type(self) # T_list
       /\ Len(Items(value)) = 1
    THEN Items(value)[1] ELSE value

\* Hint.validate, lines 66-67: value = self.coerce(value); _check_types(value, ...)
validate_recheck(self, v1) ==
    IF IsExc(v1) THEN v1 ELSE Checked(check_types(v1, self.literal, self.hint), v1)

\* Hint.validate, lines 62-69: try _check_types, on ValueError coerce and check again
validate_plain(self, v0, r1, allow_coerce) ==
    IF ~IsExc(r1) THEN v0
    ELSE IF ExcClass(r1) = "ValueError" /\ allow_coerce
    THEN validate_recheck(self, coerce(self, v0, FALSE))
    ELSE r1

\* Hint.validate, lines 82-108: the check the origin of the typed hint calls for
validate_origin(self, v2, schema, allow_multiple, allow_coerce) ==
    IF IsExc(v2) \/ self.nullable THEN v2
    ELSE CASE self.origin \in {"Union", "Literal", "UnionType"} ->
                check_inclusion(v2, self.allowed, schema, allow_multiple, allow_coerce)
           [] self.origin = "list" ->
                check_list(v2, self.allowed, self.hint, schema,
                           allow_multiple, allow_coerce)
           [] self.origin = "dict" ->
                check_dict(v2, self.allowed, self.hint, schema,
                           allow_multiple, allow_coerce)
           [] OTHER -> v2

\* Hint.validate, lines 73-108: the typed branch after the coercion of line 72
validate_typed(self, v1, schema, allow_multiple, allow_coerce) ==
    IF IsExc(v1) THEN v1
    ELSE validate_origin(self,
                         check_nullability(v1, self.nullable, self.allowed, schema,
                                           allow_multiple, allow_coerce),
                         schema, allow_multiple, allow_coerce)

\* Hint.validate
validate(self, value, schema, allow_multiple, allow_coerce) ==
    IF ~self.typed
    THEN IF self.model
         THEN check_data(self.hint, value, schema, allow_multiple, allow_coerce)
         ELSE validate_plain(self, unwrap_single(self, value, allow_multiple),
                             check_types(unwrap_single(self, value, allow_multiple),
                                         self.literal, self.hint),
                             allow_coerce)
    ELSE validate_typed(self,
                        IF allow_coerce THEN coerce(self, value, allow_multiple)
                        ELSE value,
                        schema, allow_multiple, allow_coerce)

\* the except clause with its raise left out: every ValueError is passed over
except_pass(hint, value, r) ==
    IF Caught(r, {"ValueError"}) THEN Swallowed ELSE r

\* the except clause without the test of the value against MISSING
except_allow_missing(hint, value, r) ==
    IF Caught(r, {"ValueError"}) /\ hint.allow_missing THEN Swallowed ELSE r

\* check_data, lines 196-198: the except clause of the loop body.  A ValueError is
\* raised again unless the hint allows the value to be missing and the value is one
\* of the MISSING sentinels
except_missing(hint, value, r) ==
    IF Caught(r, {"ValueError"}) /\ ~(~hint.allow_missing \/ value \notin MISSING)
    THEN Swallowed
    ELSE r

\* check_data, lines 188-198: one parameter of the loop.  The validated value, the
\* exception that leaves the loop, or Swallowed when the except clause passes over a
\* ValueError.  A parameter with no declared Hint gets typing.Any, which has no
\* validate attribute
validate_param(hints, key, value, schema, allow_multiple, allow_coerce) ==
    IF key \notin DOMAIN hints
    THEN Exc("AttributeError", "no_attribute", <<"validate">>)
    ELSE except_missing(hints[key], value,
                        validate(hints[key], value, schema, allow_multiple, allow_coerce))

\* check_data, line 190: hydration_values[key] = <validated value>
hydrate_store(params, hints, i, hydration_values, r, schema, allow_multiple, allow_coerce) ==
    IF IsExc(r) THEN r
    ELSE hydrate(params, hints, i + 1,
                 IF r = Swallowed THEN hydration_values
                 ELSE Append(hydration_values, <<params[i][1], r>>),
                 schema, allow_multiple, allow_coerce)

\* check_data, lines 185-198: the loop over params, collecting hydration_values
hydrate(params, hints, i, hydration_values, schema, allow_multiple, allow_coerce) ==
    IF i > Len(params) THEN VDict(hydration_values)
    ELSE hydrate_store(params, hints, i, hydration_values,
                       validate_param(hints, params[i][1], params[i][2], schema,
                                      allow_multiple, allow_coerce),
                       schema, allow_multiple, allow_coerce)

\* check_data, lines 199-200: a ValueError leaves as a TypeError with its message
wrap_error(e) ==
    IF ExcClass(e) = "ValueError" THEN Exc("TypeError", ExcKind(e), ExcNames(e)) ELSE e

\* check_data, lines 199-202: the outcome of the loop, then model(**hydration_values)
check_data_return(model, sig, h) ==
    IF IsExc(h) THEN wrap_error(h) ELSE construct(model, sig, h[2])

\* check_data, lines 178-202, bound being the outcome of sig.bind
check_data_bound(model, bound, schema, allow_multiple, allow_coerce) ==
    IF IsExc(bound) THEN bound
    ELSE check_data_return(model, schema[model.name].sig,
                           hydrate(bound[2], schema[model.name].hints, 1, <<>>, schema,
                                   allow_multiple, allow_coerce))

\* check_data
check_data(model, data, schema, allow_multiple, allow_coerce) ==
    IF ~IsDict(data) THEN Exc("TypeError", "not_a_dict", <<>>)
    ELSE check_data_bound(model, bind(schema[model.name].sig, data[2]), schema,
                          allow_multiple, allow_coerce)

\* _check_nullability, lines 234-241: except ValueError as e: exc = e, next alternative
nullability_try(value, allowed, i, r, schema, allow_multiple, allow_coerce) ==
    IF Caught(r, {"ValueError"})
    THEN nullability_loop(value, allowed, i + 1, r, schema, allow_multiple, allow_coerce)
    ELSE r

\* _check_nullability, lines 232-252: the for/else over the allowed alternatives.  exc
\* is the last ValueError caught (None before any); only ValueError is caught
nullability_loop(value, allowed, i, exc, schema, allow_multiple, allow_coerce) ==
    IF i > Len(allowed)
    THEN IF IsExc(exc)
         THEN (IF Len(allowed) = 1 THEN exc
               ELSE Exc("ValueError", "one_of_or_none", OptionNames(allowed)))
         ELSE value
    ELSE nullability_try(value, allowed, i,
                         validate(allowed[i], value, schema, allow_multiple, allow_coerce),
                         schema, allow_multiple, allow_coerce)

\* _check_nullability
check_nullability(value, nullable, allowed, schema, allow_multiple, allow_coerce) ==
    IF ~nullable /\ IsNone(value) THEN Exc("ValueError", "cannot_be_none", <<>>)
    ELSE IF nullable /\ ~IsNone(value)
            /\ (allow_multiple = FALSE
                \/ (IsList(value) /\ \E i \in 1..Len(Items(value)) : ~IsNone(Items(value)[i])))
    THEN nullability_loop(value, allowed, 1, VNone, schema, allow_multiple, allow_coerce)
    ELSE value

\* _check_inclusion, lines 258-261: except (ValueError, TypeError): next option
inclusion_try(value, allowed, i, r, schema, allow_multiple, allow_coerce) ==
    IF Caught(r, {"ValueError", "TypeError"})
    THEN inclusion_loop(value, allowed, i + 1, schema, allow_multiple, allow_coerce)
    ELSE r

\* _check_inclusion, lines 257-264: the first option that validates returns
inclusion_loop(value, allowed, i, schema, allow_multiple, allow_coerce) ==
    IF i > Len(allowed) THEN Exc("ValueError", "one_of", OptionNames(allowed))
    ELSE inclusion_try(value, allowed, i,
                       validate(allowed[i], value, schema, allow_multiple, allow_coerce),
                       schema, allow_multiple, allow_coerce)

\* _check_inclusion
check_inclusion(value, allowed, schema, allow_multiple, allow_coerce) ==
    inclusion_loop(value, allowed, 1, schema, allow_multiple, allow_coerce)

\* _check_list, lines 276-278: except (ValueError, TypeError): raise ValueError(...)
check_list_except(r, hint) ==
    IF Caught(r, {"ValueError", "TypeError"})
    THEN Exc("ValueError", "must_be_a", <<hint.name>>)
    ELSE r

\* _check_list
check_list(value, allowed, hint, schema, allow_multiple, allow_coerce) ==
    check_list_except(IF IsList(value)
                      THEN FirstExc([i \in 1..Len(Items(value)) |->
                                       check_inclusion(Items(value)[i], allowed, schema,
                                                       allow_multiple, allow_coerce)])
                      ELSE Exc("ValueError", "not_a_list", <<>>),
                      hint)

\* _check_dict, lines 284-292: the checked values under their keys
check_dict_except(r, value, hint) ==
    IF Caught(r, {"ValueError", "TypeError"})
    THEN Exc("ValueError", "must_be_a", <<hint.name>>)
    ELSE IF IsExc(r) THEN r
    ELSE VDict([i \in 1..Len(value[2]) |-> <<value[2][i][1], Items(r)[i]>>])

\* _check_dict
check_dict(value, allowed, hint, schema, allow_multiple, allow_coerce) ==
    check_dict_except(IF IsDict(value)
                      THEN FirstExc([i \in 1..Len(value[2]) |->
                                       check_inclusion(value[2][i][2], allowed, schema,
                                                       allow_multiple, allow_coerce)])
                      ELSE Exc("ValueError", "not_a_dict", <<>>),
                      value, hint)

(***************************************************************************)
(* The inputs: raw values as the request adapter hands them over (a scalar *)
(* string, number, bool or null, a list of scalars, a mapping), the        *)
(* declared types, the models and the data mappings                        *)
(***************************************************************************)
MaxListLen == 2

Scalars == {VNone, VStr(Chars("")), VStr(Chars("null")), VStr(Chars("None")),
            VStr(<<"a">>), VStr(<<"b">>), VStr(<<"5">>), VStr(Chars("true")),
            VInt(5), VBool(TRUE)}
ListElems == {VNone, VStr(<<"a">>), VStr(<<"5">>), VStr(Chars("null")),
              VStr(Chars("true")), VInt(5)}
Lists == {VList(l) : l \in UNION {[1..n -> ListElems] : n \in 0..MaxListLen}}
Mappings == {VDict(<<<<"person_id", VInt(5)>>>>), VDict(<<<<"person_id", VStr(<<"5">>)>>>>),
             VDict(<<<<"person_id", VStr(<<"x">>)>>>>)}
Values == Scalars \cup Lists \cup Mappings

Types == {T_int, T_str, T_bool, T_PersonID, T_Literal_ab, T_Optional_int, T_Optional_str,
          T_Optional_Literal_ab, T_List_str, T_List_int, T_List_bool, T_Optional_List_str,
          T_Dict_str_int, T_Union_int_str, T_Union_str_int, T_Union_int_bool,
          T_Union_bool_int, T_Union_PersonID_str, T_Union_int_str_None,
          T_Union_int_bool_None, T_Union_PersonID_str_None, T_Union_str_PersonID_None}

Absent == <<"absent">>
Item(k, v) == IF v = Absent THEN <<>> ELSE <<<<k, v>>>>

PersonData ==
    {VDict(Item("name", n) \o Item("tags", t) \o Item("age", a)) :
        n \in {Absent, VStr(<<"a">>), VInt(5)},
        t \in {Absent, VStr(<<"a">>)} \cup Lists,
        a \in {Absent, VNone, VInt(5), VStr(<<"5">>), VStr(<<"x">>)}}
TeamData ==
    {VDict(Item("label", l) \o Item("lead", d)) :
        l \in {Absent, VStr(<<"a">>), VStr(<<"c">>)},
        d \in {Absent, VStr(<<"x">>)} \cup Mappings}
LegacyData ==
    {VDict(Item("name", n) \o Item("extra", e)) :
        n \in {VStr(<<"a">>), VInt(5)}, e \in {Absent, VInt(5)}}
PersonIDData == Mappings \cup {VDict(<<>>), VDict(<<<<"other", VInt(5)>>>>)}
NotMappings == {VNone, VStr(<<"a">>), VList(<<VStr(<<"a">>)>>)}

Models == {Mdl("Person"), Mdl("Team"), Mdl("Legacy"), T_PersonID}
DataOf(m) ==
    NotMappings \cup
    (CASE m.name = "Person" -> PersonData
       [] m.name = "Team" -> TeamData
       [] m.name = "Legacy" -> LegacyData
       [] OTHER -> PersonIDData)

\* the requests of the interleaved specification: a few of the above
SmallTypes == {T_Optional_int, T_List_str}
SmallValues == {VStr(<<"5">>), VList(<<VStr(<<"a">>), VInt(5)>>)}
SmallPersonData ==
    {VDict(Item("name", VStr(<<"a">>)) \o Item("tags", t) \o Item("age", a)) :
        t \in {Absent, VList(<<VStr(<<"a">>), VInt(5)>>)},
        a \in {VStr(<<"5">>), VStr(<<"x">>)}}

ModelsOf(small) == IF small THEN {Mdl("Person")} ELSE Models
DataFor(m, small) == IF small THEN SmallPersonData ELSE DataOf(m)

(***************************************************************************)
(* The state machine.  Two cooperative tasks validate against one shared   *)
(* schema.  A task calls Hint.validate (one step) or check_data, whose     *)
(* loop over the bound parameters is one step per parameter.  data is the  *)
(* caller's object as it is during and after the call, input what the      *)
(* caller passed in.                                                       *)
(***************************************************************************)
VARIABLES schema, pc, op, model, hint, data, input, allow_multiple, allow_coerce,
          params, idx, hydration_values, swallowed, result, ctor_calls,
          queue, run, lpc, record, handled, at_signal, produced,
          handlers, spc, logger_instance, handler_iter

vvars == <<schema, pc, op, model, hint, data, input, allow_multiple, allow_coerce,
           params, idx, hydration_values, swallowed, result, ctor_calls>>
lvars == <<queue, run, lpc, record, handled, at_signal, produced>>
svars == <<handlers, spc, logger_instance, handler_iter>>
vars == <<vvars, lvars, svars>>

Tasks == {1, 2}
NoHint == parse_hint(NoneType, FALSE)

\* line 190 writing the validated value back into the caller's mapping as well
store_inplace(d, hv, key, r) ==
    [data |-> VDict([i \in 1..Len(d[2]) |->
                        IF d[2][i][1] = key THEN <<key, r>> ELSE d[2][i]]),
     hydration_values |-> Append(hv, <<key, r>>)]

\* what one pass of the loop body writes: hydration_values[key] = <validated value>
\* (line 190) stores into the local dict, never into the caller's mapping
store(d, hv, key, r) == [data |-> d, hydration_values |-> Append(hv, <<key, r>>)]

\* a call of Hint.validate on hint h with raw value v
CallValidate(t, Ts, Vs) ==
    /\ pc[t] = "idle"
    /\ \E ty \in Ts, v \in Vs, am \in BOOLEAN, ac \in BOOLEAN :
          /\ op' = [op EXCEPT ![t] = "validate"]
          /\ hint' = [hint EXCEPT ![t] = parse_hint(ty, FALSE)]
          /\ data' = [data EXCEPT ![t] = v]
          /\ input' = [input EXCEPT ![t] = v]
          /\ allow_multiple' = [allow_multiple EXCEPT ![t] = am]
          /\ allow_coerce' = [allow_coerce EXCEPT ![t] = ac]
          /\ result' = [result EXCEPT
                          ![t] = validate(parse_hint(ty, FALSE), v, schema, am, ac)]
    /\ pc' = [pc EXCEPT ![t] = "done"]
    /\ UNCHANGED <<schema, model, params, idx, hydration_values, swallowed, ctor_calls>>
    /\ UNCHANGED lvars
    /\ UNCHANGED svars

\* check_data, lines 176-185: reject a non-mapping, bind the data to the signature
CallCheckData(t, small) ==
    /\ pc[t] = "idle"
    /\ \E m \in ModelsOf(small), am \in BOOLEAN, ac \in BOOLEAN :
        \E d \in DataFor(m, small) :
          \E bound \in {IF IsDict(d) THEN bind(schema[m.name].sig, d[2]) ELSE VNone} :
              /\ op' = [op EXCEPT ![t] = "check_data"]
              /\ model' = [model EXCEPT ![t] = m]
              /\ data' = [data EXCEPT ![t] = d]
              /\ input' = [input EXCEPT ![t] = d]
              /\ allow_multiple' = [allow_multiple EXCEPT ![t] = am]
              /\ allow_coerce' = [allow_coerce EXCEPT ![t] = ac]
              /\ IF ~IsDict(d)
                 THEN /\ result' = [result EXCEPT
                                      ![t] = Exc("TypeError", "not_a_dict", <<>>)]
                      /\ pc' = [pc EXCEPT ![t] = "done"]
                      /\ UNCHANGED <<params, idx>>
                 ELSE IF IsExc(bound)
                 THEN /\ result' = [result EXCEPT ![t] = bound]
                      /\ pc' = [pc EXCEPT ![t] = "done"]
                      /\ UNCHANGED <<params, idx>>
                 ELSE /\ params' = [params EXCEPT ![t] = bound[2]]
                      /\ idx' = [idx EXCEPT ![t] = 1]
                      /\ pc' = [pc EXCEPT ![t] = "loop"]
                      /\ UNCHANGED result
    /\ UNCHANGED <<schema, hint, hydration_values, swallowed, ctor_calls>>
    /\ UNCHANGED lvars
    /\ UNCHANGED svars

\* check_data, lines 187-200: one parameter of the loop
LoopStep(t) ==
    /\ pc[t] = "loop"
    /\ idx[t] <= Len(params[t])
    /\ \E key \in {params[t][idx[t]][1]},
          r \in {validate_param(schema[model[t].name].hints, params[t][idx[t]][1],
                                params[t][idx[t]][2], schema,
                                allow_multiple[t], allow_coerce[t])} :
           IF IsExc(r)
           THEN /\ result' = [result EXCEPT ![t] = wrap_error(r)]
                /\ pc' = [pc EXCEPT ![t] = "done"]
                /\ UNCHANGED <<data, hydration_values, swallowed, idx>>
           ELSE IF r = Swallowed
           THEN /\ swallowed' = [swallowed EXCEPT ![t] = @ \cup {key}]
                /\ idx' = [idx EXCEPT ![t] = @ + 1]
                /\ UNCHANGED <<data, hydration_values, result, pc>>
           ELSE /\ data' = [data EXCEPT
                              ![t] = store(data[t], hydration_values[t], key, r).data]
                /\ hydration_values' =
                      [hydration_values EXCEPT
                          ![t] = store(data[t], hydration_values[t], key, r).hydration_values]
                /\ idx' = [idx EXCEPT ![t] = @ + 1]
                /\ UNCHANGED <<swallowed, result, pc>>
    /\ UNCHANGED <<schema, op, model, hint, input, allow_multiple, allow_coerce,
                   params, ctor_calls>>
    /\ UNCHANGED lvars
    /\ UNCHANGED svars

\* check_data, line 202: return model(**hydration_values)
Construct(t) ==
    /\ pc[t] = "loop"
    /\ idx[t] > Len(params[t])
    /\ result' = [result EXCEPT
                    ![t] = construct(model[t], schema[model[t].name].sig,
                                     hydration_values[t])]
    /\ ctor_calls' = [ctor_calls EXCEPT ![t] = @ + 1]
    /\ pc' = [pc EXCEPT ![t] = "done"]
    /\ UNCHANGED <<schema, op, model, hint, data, input, allow_multiple, allow_coerce,
                   params, idx, hydration_values, swallowed>>
    /\ UNCHANGED lvars
    /\ UNCHANGED svars

\* the caller takes the outcome; the task is free for the next request
Return(t) ==
    /\ pc[t] = "done"
    /\ pc' = [pc EXCEPT ![t] = "idle"]
    /\ op' = [op EXCEPT ![t] = "none"]
    /\ model' = [model EXCEPT ![t] = NoneType]
    /\ hint' = [hint EXCEPT ![t] = NoHint]
    /\ data' = [data EXCEPT ![t] = VNone]
    /\ input' = [input EXCEPT ![t] = VNone]
    /\ allow_multiple' = [allow_multiple EXCEPT ![t] = FALSE]
    /\ allow_coerce' = [allow_coerce EXCEPT ![t] = FALSE]
    /\ params' = [params EXCEPT ![t] = <<>>]
    /\ idx' = [idx EXCEPT ![t] = 0]
    /\ hydration_values' = [hydration_values EXCEPT ![t] = <<>>]
    /\ swallowed' = [swallowed EXCEPT ![t] = {}]
    /\ result' = [result EXCEPT ![t] = VNone]
    /\ ctor_calls' = [ctor_calls EXCEPT ![t] = 0]
    /\ UNCHANGED schema
    /\ UNCHANGED lvars
    /\ UNCHANGED svars

(***************************************************************************)
(* The log relay: Logger.__call__ drains the shared queue in the listener  *)
(* process; Logger.stop is its SIGINT/SIGTERM handler, which Python runs   *)
(* in the consumer's own thread between two of its steps.                  *)
(***************************************************************************)
\* sync_manager.Queue(maxsize=4096)
QueueMaxSize == 4096
\* records the producers emit in one run
MaxRecords == 3
LoggerNames == {"sanic.root", "sanic.access", "sanic.error"}
NoRecord == [id |-> 0, name |-> "none"]

\* QueueHandler.emit in a server process: queue.put_nowait(record)
Produce ==
    /\ produced < MaxRecords
    /\ Len(queue) < QueueMaxSize
    /\ \E n \in LoggerNames :
          queue' = Append(queue, [id |-> produced + 1, name |-> n])
    /\ produced' = produced + 1
    /\ UNCHANGED <<run, lpc, record, handled, at_signal>>
    /\ UNCHANGED vvars
    /\ UNCHANGED svars

\* Logger.__call__, lines 58-61: install the handlers, create the listener
LoggerStart ==
    /\ lpc = "start"
    /\ lpc' = "while"
    /\ UNCHANGED <<queue, run, record, handled, at_signal, produced>>
    /\ UNCHANGED vvars
    /\ UNCHANGED svars

\* line 63: while self.run
LoggerTest ==
    /\ lpc = "while"
    /\ lpc' = IF run THEN "get" ELSE "exited"
    /\ UNCHANGED <<queue, run, record, handled, at_signal, produced>>
    /\ UNCHANGED vvars
    /\ UNCHANGED svars

\* lines 64-67: queue.get_nowait(); Empty goes back to the loop test
LoggerGet ==
    /\ lpc = "get"
    /\ IF queue = <<>>
       THEN /\ lpc' = "while"
            /\ UNCHANGED <<queue, record>>
       ELSE /\ record' = Head(queue)
            /\ queue' = Tail(queue)
            /\ lpc' = "handle"
    /\ UNCHANGED <<run, handled, at_signal, produced>>
    /\ UNCHANGED vvars
    /\ UNCHANGED svars

\* lines 68-69: self.loggers.get(record.name).handle(record)
LoggerHandle ==
    /\ lpc = "handle"
    /\ handled' = handled \cup {record.id}
    /\ record' = NoRecord
    /\ lpc' = "while"
    /\ UNCHANGED <<queue, run, at_signal, produced>>
    /\ UNCHANGED vvars
    /\ UNCHANGED svars

\* Logger.stop, lines 71-73, run by SIGINT/SIGTERM once the handlers are installed.
\* at_signal remembers the records that were in the queue when the signal came
Stop ==
    /\ lpc \in {"while", "get", "handle"}
    /\ run
    /\ run' = FALSE
    /\ at_signal' = {queue[i].id : i \in 1..Len(queue)}
    /\ UNCHANGED <<queue, lpc, record, handled, produced>>
    /\ UNCHANGED vvars
    /\ UNCHANGED svars

(***************************************************************************)
(* setup_server_logging: in a server process, every handler of the three   *)
(* loggers is to give way to the queue handler.  handlers is each logger's *)
(* handlers list; the for loop of line 35 is a list iterator, a position   *)
(* in the list as the list is at each step.                                *)
(***************************************************************************)
\* handlers one logger is given before the call
MaxHandlers == 3
\* (root_logger, access_logger, error_logger)
LoggerOrder == <<"sanic.root", "sanic.access", "sanic.error">>
Handler(n) == <<"handler", n>>
\* qhandler = QueueHandler(app.shared_ctx.logger_queue)
qhandler == <<"qhandler", 0>>

\* logging.Logger.removeHandler: if hdlr in self.handlers: self.handlers.remove(hdlr)
removeHandler(hs, hdlr) ==
    IF \E i \in 1..Len(hs) : hs[i] = hdlr
    THEN SubSeq(hs, 1, (CHOOSE i \in 1..Len(hs) :
                            hs[i] = hdlr /\ \A j \in 1..(i - 1) : hs[j] # hdlr) - 1)
         \o SubSeq(hs, (CHOOSE i \in 1..Len(hs) :
                            hs[i] = hdlr /\ \A j \in 1..(i - 1) : hs[j] # hdlr) + 1,
                   Len(hs))
    ELSE hs

\* logging.Logger.addHandler: if not (hdlr in self.handlers): self.handlers.append(hdlr)
addHandler(hs, hdlr) ==
    IF \E i \in 1..Len(hs) : hs[i] = hdlr THEN hs ELSE Append(hs, hdlr)

\* the logging configuration gives logger l one more handler, before the server starts
Configure(l) ==
    /\ spc = "idle"
    /\ Len(handlers[l]) < MaxHandlers
    /\ handlers' = [handlers EXCEPT ![l] = addHandler(@, Handler(Len(@) + 1))]
    /\ UNCHANGED <<spc, logger_instance, handler_iter>>
    /\ UNCHANGED <<vvars, lvars>>

\* setup_server_logging, lines 30-32
SetupBegin ==
    /\ spc = "idle"
    /\ spc' = "for_logger"
    /\ logger_instance' = 1
    /\ UNCHANGED <<handlers, handler_iter>>
    /\ UNCHANGED <<vvars, lvars>>

\* line 34: for logger_instance in (root_logger, access_logger, error_logger)
SetupForLogger ==
    /\ spc = "for_logger"
    /\ IF logger_instance > Len(LoggerOrder)
       THEN /\ spc' = "done"
            /\ UNCHANGED handler_iter
       ELSE /\ spc' = "for_handler"
            /\ handler_iter' = 1
    /\ UNCHANGED <<handlers, logger_instance>>
    /\ UNCHANGED <<vvars, lvars>>

\* lines 35-36: for handler in logger_instance.handlers:
\*                  logger_instance.removeHandler(handler)
SetupForHandler ==
    /\ spc = "for_handler"
    /\ IF handler_iter <= Len(handlers[LoggerOrder[logger_instance]])
       THEN /\ handlers' =
                  [handlers EXCEPT
                      ![LoggerOrder[logger_instance]] = removeHandler(@, @[handler_iter])]
            /\ handler_iter' = handler_iter + 1
            /\ UNCHANGED spc
       ELSE /\ spc' = "add"
            /\ UNCHANGED <<handlers, handler_iter>>
    /\ UNCHANGED logger_instance
    /\ UNCHANGED <<vvars, lvars>>

\* line 37: logger_instance.addHandler(qhandler)
SetupAddHandler ==
    /\ spc = "add"
    /\ handlers' = [handlers EXCEPT
                       ![LoggerOrder[logger_instance]] = addHandler(@, qhandler)]
    /\ logger_instance' = logger_instance + 1
    /\ spc' = "for_logger"
    /\ UNCHANGED handler_iter
    /\ UNCHANGED <<vvars, lvars>>

(***************************************************************************)
(* Specifications                                                          *)
(***************************************************************************)
Init ==
    /\ schema = TheSchema
    /\ pc = [t \in Tasks |-> "idle"]
    /\ op = [t \in Tasks |-> "none"]
    /\ model = [t \in Tasks |-> NoneType]
    /\ hint = [t \in Tasks |-> NoHint]
    /\ data = [t \in Tasks |-> VNone]
    /\ input = [t \in Tasks |-> VNone]
    /\ allow_multiple = [t \in Tasks |-> FALSE]
    /\ allow_coerce = [t \in Tasks |-> FALSE]
    /\ params = [t \in Tasks |-> <<>>]
    /\ idx = [t \in Tasks |-> 0]
    /\ hydration_values = [t \in Tasks |-> <<>>]
    /\ swallowed = [t \in Tasks |-> {}]
    /\ result = [t \in Tasks |-> VNone]
    /\ ctor_calls = [t \in Tasks |-> 0]
    /\ queue = <<>>
    /\ run = TRUE
    /\ lpc = "start"
    /\ record = NoRecord
    /\ handled = {}
    /\ at_signal = {}
    /\ produced = 0
    /\ handlers = [l \in LoggerNames |-> <<>>]
    /\ spc = "idle"
    /\ logger_instance = 0
    /\ handler_iter = 0

\* one task, every request
Next ==
    \/ CallValidate(1, Types, Values)
    \/ CallCheckData(1, FALSE)
    \/ LoopStep(1)
    \/ Construct(1)
    \/ Return(1)

Spec == Init /\ [][Next]_vars

\* two tasks interleaved on the shared schema, a few requests
NextInterleaved ==
    \E t \in Tasks :
        \/ CallValidate(t, SmallTypes, SmallValues)
        \/ CallCheckData(t, TRUE)
        \/ LoopStep(t)
        \/ Construct(t)
        \/ Return(t)

SpecInterleaved == Init /\ [][NextInterleaved]_vars

\* the log relay
LoggerNext ==
    \/ Produce
    \/ LoggerStart
    \/ LoggerTest
    \/ LoggerGet
    \/ LoggerHandle
    \/ Stop

LoggerSpec == Init /\ [][LoggerNext]_vars

\* the server process start: the loggers are configured, setup_server_logging runs
SetupNext ==
    \/ \E l \in LoggerNames : Configure(l)
    \/ SetupBegin
    \/ SetupForLogger
    \/ SetupForHandler
    \/ SetupAddHandler

SetupSpec == Init /\ [][SetupNext]_vars

(***************************************************************************)
(* Properties                                                              *)
(***************************************************************************)
Hints(t) == schema[model[t].name].hints
Keys(t) == {params[t][i][1] : i \in 1..Len(params[t])}
Done(t, o) == pc[t] = "done" /\ op[t] = o

\* the validation of bound parameter i of task t's check_data call fails and the
\* allow_missing exemption does not cover it
FailsUnexempted(t, i) ==
    \/ params[t][i][1] \notin DOMAIN Hints(t)
    \/ /\ IsExc(validate(Hints(t)[params[t][i][1]], params[t][i][2], schema,
                         allow_multiple[t], allow_coerce[t]))
       /\ ~(Hints(t)[params[t][i][1]].allow_missing /\ params[t][i][2] \in MISSING)

\* C1: in check_data a field whose validation fails, and that allow_missing does not
\* exempt, aborts the call: the constructor is not invoked and the call ends with an
\* error, never an instance; the constructor is invoked only once every bound
\* parameter has been validated (its value collected) or exempted
C1_FailureAborts ==
    \A t \in Tasks :
        op[t] = "check_data" =>
            /\ (\E i \in 1..Len(params[t]) : FailsUnexempted(t, i)) =>
                    /\ ctor_calls[t] = 0
                    /\ pc[t] = "done" => IsExc(result[t])
            /\ ctor_calls[t] > 0 =>
                    /\ idx[t] > Len(params[t])
                    /\ Keys(t) = DictKeys(hydration_values[t]) \cup swallowed[t]

\* a call that collected one field and was aborted by a later one
C1_Witness ==
    /\ Done(1, "check_data")
    /\ \E i \in 1..Len(params[1]) : FailsUnexempted(1, i)
    /\ hydration_values[1] # <<>>
    /\ ctor_calls[1] = 0
    /\ IsExc(result[1])

\* C2: every check_data call that does not return a model instance ends with a
\* TypeError; no other error class escapes
C2_OnlyTypeError ==
    \A t \in Tasks :
        (Done(t, "check_data") /\ IsExc(result[t])) => ExcClass(result[t]) = "TypeError"

\* the absent-value sentinels: actual null and the strings str_to_none recognises
SentinelStrings == {VStr(Chars("")), VStr(Chars("null")), VStr(Chars("None"))}
Sentinels == {VNone} \cup SentinelStrings

\* C3: for every nullable Hint, validating an absent-value sentinel with allow_coerce
\* true yields None
C3_SentinelYieldsNone ==
    \A t \in Tasks :
        (Done(t, "validate") /\ hint[t].nullable /\ allow_coerce[t]
            /\ input[t] \in Sentinels) => result[t] = VNone

AdmitsStr(ty) ==
    \/ ty = T_str
    \/ is_generic(ty) /\ ty.origin = "Union" /\ InArgs(T_str, get_args(ty))

Accepts(h, i, v, am, ac) == ~IsExc(validate(h.allowed[i], v, schema, am, ac))
FirstAccepting(h, v, am, ac) ==
    CHOOSE i \in 1..Len(h.allowed) :
        Accepts(h, i, v, am, ac) /\ \A j \in 1..(i - 1) : ~Accepts(h, j, v, am, ac)

\* C5: for a non-nullable union or literal-set Hint and a present value, validate
\* returns what the first alternative, in declaration order, that accepts the value
\* returns, and when none accepts it fails with a message listing every alternative
C5_FirstMatchWins ==
    \A t \in Tasks :
        (Done(t, "validate") /\ ~hint[t].nullable /\ input[t] # VNone
            /\ hint[t].origin \in {"Union", "Literal", "UnionType"})
        => result[t] =
             IF \E i \in 1..Len(hint[t].allowed) :
                   Accepts(hint[t], i, input[t], allow_multiple[t], allow_coerce[t])
             THEN validate(hint[t].allowed[FirstAccepting(hint[t], input[t],
                                               allow_multiple[t], allow_coerce[t])],
                           input[t], schema, allow_multiple[t], allow_coerce[t])
             ELSE Exc("ValueError", "one_of", OptionNames(hint[t].allowed))

\* C6: for a nullable Hint with several alternatives and a present value, a failure
\* of an earlier alternative, of whatever kind, does not keep a later alternative
\* from being attempted: when some alternative accepts the value, validate succeeds
C6_LaterAlternativeTried ==
    \A t \in Tasks :
        (Done(t, "validate") /\ hint[t].nullable /\ Len(hint[t].allowed) > 1
            /\ input[t] # VNone
            /\ \E i \in 1..Len(hint[t].allowed) :
                  Accepts(hint[t], i, input[t], allow_multiple[t], allow_coerce[t]))
        => ~IsExc(result[t])

\* whether the list element e is valid for the element Hint of list Hint h, and what
\* it validates to
ElementValid(h, e, am, ac) == ~IsExc(check_inclusion(e, h.allowed, schema, am, ac))
ElementsValidated(h, v, am, ac) ==
    VList([i \in 1..Len(Items(v)) |->
              check_inclusion(Items(v)[i], h.allowed, schema, am, ac)])

\* C7: for a list-typed Hint and a present value, a list whose elements are all valid
\* validates to the list of the validated elements, same length and order; a list
\* with an invalid element, or a value that is no list, fails with the error naming
\* the declared list type
C7_ListAllOrNothing ==
    \A t \in Tasks :
        (Done(t, "validate") /\ hint[t].origin = "list" /\ ~hint[t].nullable
            /\ input[t] # VNone)
        => result[t] =
             IF IsList(input[t])
                /\ \A i \in 1..Len(Items(input[t])) :
                      ElementValid(hint[t], Items(input[t])[i],
                                   allow_multiple[t], allow_coerce[t])
             THEN ElementsValidated(hint[t], input[t], allow_multiple[t], allow_coerce[t])
             ELSE Exc("ValueError", "must_be_a", <<hint[t].hint.name>>)

\* the bound value of parameter key of task t
BoundValue(t, key) == DictGet(params[t], key)

\* C8: in check_data a failure is passed over only for a field whose Hint has
\* allow_missing and whose bound value is a MISSING sentinel; that field is left out
\* of the constructor arguments, the fields after it are still validated, and any
\* other failure aborts the call
C8_SwallowOnlyMissing ==
    \A t \in Tasks :
        op[t] = "check_data" =>
            /\ \A key \in swallowed[t] :
                  /\ Hints(t)[key].allow_missing
                  /\ BoundValue(t, key) \in MISSING
                  /\ key \notin DictKeys(hydration_values[t])
            /\ \A i \in 1..Len(params[t]) :
                  (i < idx[t]) =>
                      params[t][i][1] \in DictKeys(hydration_values[t]) \cup swallowed[t]
            /\ \A i \in 1..Len(params[t]) :
                  FailsUnexempted(t, i) =>
                      /\ idx[t] <= i
                      /\ (idx[t] = i /\ pc[t] = "done") =>
                            (IsExc(result[t]) /\ ctor_calls[t] = 0)

\* a factory field passed over, a later field validated, the instance constructed
\* without the field that was passed over
C8_Witness ==
    /\ Done(1, "check_data")
    /\ swallowed[1] = {"tags"}
    /\ "age" \in DictKeys(hydration_values[1])
    /\ ctor_calls[1] = 1
    /\ ~IsExc(result[1])

\* C9: once the consumer loop has exited, every record that was in the queue when
\* the stop signal came has been handled
C9_NothingDiscarded ==
    lpc = "exited" => at_signal \subseteq handled

Present(v) ==
    /\ ~IsNone(v)
    /\ ~(IsList(v) /\ \A i \in 1..Len(Items(v)) : IsNone(Items(v)[i]))

\* C11: for a nullable compound Hint every present value validate returns has been
\* accepted by one of the Hint's allowed alternatives, whatever allow_multiple is and
\* whether the raw value is a scalar or a list
C11_ReturnedIsAccepted ==
    \A t \in Tasks :
        (Done(t, "validate") /\ hint[t].typed /\ hint[t].nullable
            /\ ~IsExc(result[t]) /\ Present(result[t]))
        => \E i \in 1..Len(hint[t].allowed) :
              \/ validate(hint[t].allowed[i], input[t], schema,
                          allow_multiple[t], allow_coerce[t]) = result[t]
              \/ validate(hint[t].allowed[i], result[t], schema,
                          allow_multiple[t], allow_coerce[t]) = result[t]

\* C12: after setup_server_logging each of the three loggers has the queue handler
\* as its only handler, however many handlers it had before the call
C12_OnlyQueueHandler ==
    spc = "done" => \A l \in LoggerNames : handlers[l] = <<qhandler>>

====
